---- MODULE Spec2Model ----
(***************************************************************************)
(* Model of the CLAHE golden-reference scripts.                            *)
(*                                                                         *)
(*   SpecCdf    : projects/64tile_optimized/scripts/verify_cdf_golden.py   *)
(*                read_input_data fills one tile's 256-bin histogram       *)
(*                record by record, CLAHEGoldenModel.calculate_cdf turns   *)
(*                it into the normalised CDF table.                        *)
(*   SpecWeight : projects/16tile/scripts/verify_fixed_weights.py          *)
(*                calc_weight_fixed, called for two offsets of one axis.   *)
(*   SpecInterp : projects/16tile/scripts/debug_interp_weights.py          *)
(*                test_bilinear_interp at one position of a tile.          *)
(*   SpecScan   : projects/16tile/scripts/verify_fixed_weights.py          *)
(*                visualize_fixed_weights, the pixel scans in x and in y.  *)
(*   SpecHarness: projects/64tile_optimized/scripts/verify_cdf_golden.py   *)
(*                main: verify_test per pair, the counters, the summary.   *)
(***************************************************************************)
EXTENDS Integers, Sequences, FiniteSets

VARIABLES
    pc,              \* "read" | "loaded" | "done": position in the CDF script
    histogram,       \* input_data[test_id][tile_id], bin -> count
    clip_limit,      \* argument of calculate_cdf
    pre_hist,        \* clipped_hist after the clipping loop (lines 39-43)
    total_excess,    \* total_excess after the clipping loop
    clipped_hist,    \* clipped_hist after the redistribution loop (49-53)
    cdf,             \* np.cumsum(clipped_hist)
    normalized_cdf,  \* the returned table
    outcome,         \* "none" | "returned" | "error"
    bins,            \* golden_model.bins
    tile_pixels,     \* golden_model.tile_pixels
    wpc,             \* "start" | "first" | "second": calls of calc_weight_fixed
    is_x_axis,       \* axis argument of both calls
    dx_or_dy,        \* offset argument of the latest call
    weight,          \* result of the latest call
    prev_d,          \* offset argument of the call before
    prev_weight,     \* result of the call before
    fn,              \* "fixed": calc_weight_fixed, "current": calc_current_weight
    mult,            \* local `mult` of the latest call
    offset,          \* local `offset` of the latest call, at the result line
    prev_offset,     \* local `offset` of the call before
    wx_ideal,        \* analyze_weight_precision: calc_ideal_weight(dx)
    error,           \* analyze_weight_precision: abs(wx_current - wx_ideal)
    ipc,             \* "start" | "done": one iteration of test_bilinear_interp
    local_x,         \* position inside the tile
    local_y,
    wx,              \* calc_weight_verilog(local_x, True)
    wy,              \* calc_weight_verilog(local_y, False)
    cdf_tl,          \* the four tiles' looked-up values
    cdf_tr,
    cdf_bl,
    cdf_br,
    sum_top,         \* the three sums before their >> 8
    sum_bottom,
    sum_result,
    interp_top,
    interp_bottom,
    interp_result    \* `result`, the interpolated value

cdfVars == <<pc, histogram, clip_limit, pre_hist, total_excess, clipped_hist,
             cdf, normalized_cdf, outcome, bins, tile_pixels>>
weightVars == <<wpc, is_x_axis, dx_or_dy, weight, prev_d, prev_weight, fn,
                mult, offset, prev_offset, wx_ideal, error>>
interpVars == <<ipc, local_x, local_y, wx, wy, cdf_tl, cdf_tr, cdf_bl, cdf_br,
                sum_top, sum_bottom, sum_result, interp_top, interp_bottom,
                interp_result>>
\* visualize_fixed_weights: the two scan loops
VARIABLES
    spc,             \* "x" | "y" | "done": the loop being run
    px,              \* pixel of the last iteration of the x loop
    tile_x,          \* px // TILE_WIDTH
    px_local,        \* local_x of the x loop, px % TILE_WIDTH
    wx_values,       \* weights appended by the x loop
    tile_ids,        \* tiles appended by the x loop
    py,              \* pixel of the last iteration of the y loop
    tile_y,          \* py // TILE_HEIGHT
    py_local,        \* local_y of the y loop, py % TILE_HEIGHT
    wy_values        \* weights appended by the y loop

scanVars == <<spc, px, tile_x, px_local, wx_values, tile_ids, py, tile_y,
              py_local, wy_values>>

\* verify_cdf_golden.py main: the comparison loop and the summary
VARIABLES
    hpc,              \* "loop" | "returned" | "raised": position in main
    pair_idx,         \* (test_id, tile_id) pairs of input_data gone through
    golden_cdf,       \* table of the latest compared pair
    actual_output,    \* output_data[test_id][tile_id] of that pair, a dict
    mismatches,       \* result['mismatches'] of that pair
    max_error,        \* result['max_error'] of that pair
    status,           \* "none" | "PASS" | "ACCEPTABLE" | "FAIL", as printed
    total_tests,
    passed_tests,
    acceptable_tests,
    failed_tests,
    exit_status       \* value main returned; -1 while it has returned none

harnessVars == <<hpc, pair_idx, golden_cdf, actual_output, mismatches,
                 max_error, status, total_tests, passed_tests,
                 acceptable_tests, failed_tests, exit_status>>

vars == <<cdfVars, weightVars, interpVars, scanVars, harnessVars>>

(***************************************************************************)
(* Program constants and input sets                                        *)
(***************************************************************************)
Bins == 256
TilePixels == 14400

BinIdx == 0..(Bins - 1)

\* bin addresses and counts the input records are drawn from; MaxCount is
\* large enough for an excess above 256 (avg_increment > 0)
MaxCount == 300
BinAddrs == {0, 50, 85, 170, 255}
Counts == {0, 4, 16, MaxCount}

\* clip limits calculate_cdf is called with (non-positive ones included)
ClipLimits == {-1, 0, 3, 100}

\* what the float -> uint8 conversion of a negative value yields: it is
\* undefined in C; x86 builds wrap modulo 256, ARM builds saturate to 0
Casts == {"wrap", "saturate"}

ZeroHist == [i \in BinIdx |-> 0]

\* calc_weight_fixed: multipliers of the two axes, shift, centre weight
MultX == 819
MultY == 1456
Shift == 10
CenterWeight == 128

\* tile geometry of the 16-tile scripts
TILE_WIDTH == 320
TILE_HEIGHT == 180
TILE_CENTER_X == 160
TILE_CENTER_Y == 90

\* offsets calc_weight_fixed is called with: -MaxOffset..MaxOffset, which
\* reaches past the half tile (160 and 90) into saturation on both axes
MaxOffset == 162
Offsets == (-MaxOffset)..MaxOffset

\* test_bilinear_interp: positions inside the tile and looked-up values
LocalXs == {0, 1, 80, 159, 160, 161, 240, 318, 319}
LocalYs == {0, 1, 45, 89, 90, 91, 135, 179}
CdfValues == {0, 1, 100, 150, 254, 255}

(***************************************************************************)
(* calculate_cdf, step by step                                             *)
(***************************************************************************)
\* sum of f[lo..hi]; the range is halved so that the evaluation stays shallow
RECURSIVE SumRange(_, _, _)
SumRange(f, lo, hi) ==
    IF lo > hi THEN 0
    ELSE IF lo = hi THEN f[lo]
    ELSE LET mid == (lo + hi) \div 2
         IN  SumRange(f, lo, mid) + SumRange(f, mid + 1, hi)

\* mutant of ClipBins: the clipping loop is left out
ClipBinsNone(h, c) == h

\* lines 39-43, the bins: a bin above the limit is set to the limit
ClipBins(h, c) == [i \in BinIdx |-> IF h[i] > c THEN c ELSE h[i]]

\* lines 39-43, the accumulator: total_excess += clipped_hist[i] - clip_limit
TotalExcess(h, c) ==
    SumRange([i \in BinIdx |-> IF h[i] > c THEN h[i] - c ELSE 0], 0, Bins - 1)

\* mutant of Redistribute: the remainder is dropped
RedistributeNoRemainder(h, excess) ==
    [i \in BinIdx |-> h[i] + (excess \div Bins)]

\* mutant of Redistribute: the +1 goes to the last `remainder` bins
RedistributeFromEnd(h, excess) ==
    [i \in BinIdx |-> h[i] + (excess \div Bins)
                        + (IF i >= Bins - (excess % Bins) THEN 1 ELSE 0)]

\* mutant of Redistribute: the whole remainder goes to bin 0
RedistributeAllToFirst(h, excess) ==
    [i \in BinIdx |-> h[i] + (excess \div Bins)
                        + (IF i = 0 THEN excess % Bins ELSE 0)]

\* mutant of Redistribute: the whole excess is added to the last bin
RedistributeToLast(h, excess) ==
    [i \in BinIdx |-> h[i] + (IF i = Bins - 1 THEN excess ELSE 0)]

\* lines 46-53: avg_increment to every bin, +1 to the first `remainder` bins
Redistribute(h, excess) ==
    LET avg_increment == excess \div Bins
        remainder == excess % Bins
    IN  [i \in BinIdx |-> h[i] + avg_increment + (IF i < remainder THEN 1 ELSE 0)]

\* line 56: np.cumsum, the running sums of h[lo..hi] started from base
RECURSIVE CumSumSeq(_, _, _, _)
CumSumSeq(h, lo, hi, base) ==
    IF lo = hi THEN <<base + h[lo]>>
    ELSE LET mid == (lo + hi) \div 2
             left == CumSumSeq(h, lo, mid, base)
         IN  left \o CumSumSeq(h, mid + 1, hi, left[Len(left)])

\* mutant of CumSum: the running sum leaves out the bin itself
CumSumExclusive(h) ==
    LET s == CumSumSeq(h, 0, Bins - 1, 0)
    IN  [i \in BinIdx |-> IF i = 0 THEN 0 ELSE s[i]]

CumSum(h) == LET s == CumSumSeq(h, 0, Bins - 1, 0) IN [i \in BinIdx |-> s[i + 1]]

\* mutant of CdfMin: the search for the first positive value is left out
CdfMinFirstBin(c) == c[0]

\* lines 60-66: cdf[0], replaced by the first strictly positive cdf value
CdfMin(c) ==
    LET positive == {i \in BinIdx : c[i] > 0}
    IN  IF positive = {} THEN c[0]
        ELSE c[CHOOSE i \in positive : \A j \in positive : i <= j]

\* mutant of IsDegenerate: the empty tile is not treated as degenerate
IsDegenerateNonEmpty(total, cdf_min) == total = cdf_min /\ total # 0

\* line 70: the branch that returns np.zeros
IsDegenerate(total, cdf_min) == total = cdf_min \/ total = 0

\* the float quotient a / b, truncated toward zero as a C integer cast does
TruncDiv(a, b) ==
    IF b > 0
    THEN (IF a >= 0 THEN a \div b ELSE -((-a) \div b))
    ELSE (IF a >= 0 THEN -(a \div (-b)) ELSE (-a) \div (-b))

\* line 75, .astype(np.uint8) of the float (a * 255.0 / b)
AsTypeUint8(a, b, cast) ==
    LET q == TruncDiv(a * 255, b)
    IN  IF q >= 0 /\ q <= 255 THEN q
        ELSE IF cast = "wrap" THEN q % 256
        ELSE IF q < 0 THEN 0 ELSE 255

\* mutant of Scale: cdf_min is not subtracted
ScaleNoMin(c, cdf_min, total, cast) ==
    [i \in BinIdx |-> AsTypeUint8(c[i], total, cast)]

\* line 75: the table of the normalising branch
Scale(c, cdf_min, total, cast) ==
    [i \in BinIdx |-> AsTypeUint8(c[i] - cdf_min, total - cdf_min, cast)]

\* lines 68-77; a zero divisor in line 75 would end the call in an error
Normalize(c, cast) ==
    LET cdf_min == CdfMin(c)
        total == c[Bins - 1]
    IN  IF IsDegenerate(total, cdf_min)
        THEN [table |-> ZeroHist, outcome |-> "returned"]
        ELSE IF total - cdf_min = 0
        THEN [table |-> ZeroHist, outcome |-> "error"]
        ELSE [table |-> Scale(c, cdf_min, total, cast), outcome |-> "returned"]

(***************************************************************************)
(* Actions of the CDF script                                               *)
(***************************************************************************)
\* nothing read, nothing called yet
Init ==
    /\ pc = "read"
    /\ histogram = ZeroHist
    /\ clip_limit = 0
    /\ pre_hist = ZeroHist
    /\ total_excess = 0
    /\ clipped_hist = ZeroHist
    /\ cdf = ZeroHist
    /\ normalized_cdf = ZeroHist
    /\ outcome = "none"
    /\ bins = Bins
    /\ tile_pixels = TilePixels
    /\ wpc = "start"
    /\ is_x_axis = TRUE
    /\ dx_or_dy = 0
    /\ weight = 0
    /\ prev_d = 0
    /\ prev_weight = 0
    /\ fn = "fixed"
    /\ mult = 0
    /\ offset = 0
    /\ prev_offset = 0
    /\ wx_ideal = 0
    /\ error = 0
    /\ ipc = "start"
    /\ local_x = 0
    /\ local_y = 0
    /\ wx = 0
    /\ wy = 0
    /\ cdf_tl = 0
    /\ cdf_tr = 0
    /\ cdf_bl = 0
    /\ cdf_br = 0
    /\ sum_top = 0
    /\ sum_bottom = 0
    /\ sum_result = 0
    /\ interp_top = 0
    /\ interp_bottom = 0
    /\ interp_result = 0
    /\ spc = "x"
    /\ px = 0
    /\ tile_x = 0
    /\ px_local = 0
    /\ wx_values = <<>>
    /\ tile_ids = <<>>
    /\ py = 0
    /\ tile_y = 0
    /\ py_local = 0
    /\ wy_values = <<>>
    /\ hpc = "loop"
    /\ pair_idx = 0
    /\ golden_cdf = ZeroHist
    /\ actual_output = ZeroHist
    /\ mismatches = 0
    /\ max_error = 0
    /\ status = "none"
    /\ total_tests = 0
    /\ passed_tests = 0
    /\ acceptable_tests = 0
    /\ failed_tests = 0
    /\ exit_status = -1

\* read_input_data, one record: data[test_id][tile_id][bin_addr] = value
ReadRecord(bin_addr, value) ==
    /\ pc = "read"
    /\ histogram' = [histogram EXCEPT ![bin_addr] = value]
    /\ UNCHANGED <<pc, clip_limit, pre_hist, total_excess, clipped_hist, cdf,
                   normalized_cdf, outcome, bins, tile_pixels>>
    /\ UNCHANGED <<weightVars, interpVars, scanVars, harnessVars>>

\* read_input_data reaches the end of the file and returns
EndRead ==
    /\ pc = "read"
    /\ pc' = "loaded"
    /\ UNCHANGED <<histogram, clip_limit, pre_hist, total_excess, clipped_hist,
                   cdf, normalized_cdf, outcome, bins, tile_pixels>>
    /\ UNCHANGED <<weightVars, interpVars, scanVars, harnessVars>>

\* lines 36-77: what calculate_cdf computes from its arguments; the operators
\* above are written for self.bins = Bins
CdfBody(c, cast) ==
    /\ bins = Bins
    /\ clip_limit' = c
    /\ pre_hist' = ClipBins(histogram, c)
    /\ total_excess' = TotalExcess(histogram, c)
    /\ clipped_hist' = Redistribute(pre_hist', total_excess')
    /\ cdf' = CumSum(clipped_hist')
    /\ LET res == Normalize(cdf', cast)
       IN  /\ normalized_cdf' = res.table
           /\ outcome' = res.outcome

\* mutant of CalculateCdf: the table is computed while records are still read
CalculateCdfEarly(c, cast) ==
    /\ pc = "read"
    /\ CdfBody(c, cast)
    /\ UNCHANGED <<pc, histogram, bins, tile_pixels>>
    /\ UNCHANGED <<weightVars, interpVars, scanVars, harnessVars>>

\* mutant of CalculateCdf: the bins are clipped and refilled in the caller's
\* array (no np.copy)
CalculateCdfInPlace(c, cast) ==
    /\ pc = "loaded"
    /\ CdfBody(c, cast)
    /\ pc' = "done"
    /\ histogram' = clipped_hist'
    /\ UNCHANGED <<bins, tile_pixels>>
    /\ UNCHANGED <<weightVars, interpVars, scanVars, harnessVars>>

\* golden_model.calculate_cdf(histogram, clip_limit), the whole call, made by
\* main once read_input_data has returned; line 36 works on a copy
CalculateCdf(c, cast) ==
    /\ pc = "loaded"
    /\ CdfBody(c, cast)
    /\ pc' = "done"
    /\ UNCHANGED <<histogram, bins, tile_pixels>>
    /\ UNCHANGED <<weightVars, interpVars, scanVars, harnessVars>>

(***************************************************************************)
(* calc_weight_fixed                                                       *)
(***************************************************************************)
\* Python's >> on an int: arithmetic shift, the floor of v / 2^n
ShiftRight(v, n) == v \div (2 ^ n)

\* mutant of WeightMult: the two multipliers are swapped
WeightMultSwapped(d, x_axis) == IF x_axis THEN d * MultY ELSE d * MultX

\* mutant of WeightMult: both axes use the horizontal multiplier
WeightMultSame(d, x_axis) == d * MultX

\* lines 26 and 33: mult = dx_or_dy * 819, or * 1456 on the vertical axis
WeightMult(d, x_axis) == IF x_axis THEN d * MultX ELSE d * MultY

\* mutant of ShiftedOffset: the plain arithmetic shift, also for mult < 0
ShiftedOffsetFloor(m) == ShiftRight(m, Shift)

\* lines 26-30 and 33-36: the shift, redone on the magnitude when mult < 0
ShiftedOffset(m) ==
    IF m < 0 THEN -ShiftRight(-m, Shift) ELSE ShiftRight(m, Shift)

\* mutant of Saturate: the result is cut to its low 8 bits
SaturateWrap(result) == result % 256

\* lines 40-45
Saturate(result) ==
    IF result < 0 THEN 0 ELSE IF result > 255 THEN 255 ELSE result

\* mutant of calc_weight_fixed: the weight is not recentred on 128
calc_weight_uncentred(d, x_axis) ==
    Saturate(ShiftedOffset(IF x_axis THEN d * MultX ELSE d * MultY))

\* lines 19-45
calc_weight_fixed(d, x_axis) ==
    Saturate(CenterWeight + ShiftedOffset(WeightMult(d, x_axis)))

\* mutant of calc_current_weight: the shift is not redone for mult < 0
calc_current_weight_floor(dx) ==
    LET result == CenterWeight + ShiftRight(dx * MultX, Shift)
        capped == IF 255 < result THEN 255 ELSE result
    IN  IF 0 > capped THEN 0 ELSE capped

\* analyze_remaining_artifacts.py lines 15-22: the horizontal copy, with
\* max(0, min(255, result)) as its saturation
calc_current_weight(dx) ==
    LET result == CenterWeight + ShiftedOffset(dx * MultX)
        capped == IF 255 < result THEN 255 ELSE result
    IN  IF 0 > capped THEN 0 ELSE capped

\* mutant of calc_ideal_weight: the offset is not scaled by 256 / tile_width
calc_ideal_weight_unscaled(dx) ==
    LET wx_int == CenterWeight + dx
        capped == IF 255 < wx_int THEN 255 ELSE wx_int
    IN  IF 0 > capped THEN 0 ELSE capped

\* analyze_remaining_artifacts.py lines 25-29: int(128 + dx * 256.0 / 320),
\* the float truncated toward zero, then max(0, min(255, .)). The exact
\* quotient stands for the float: 0.8 * dx is a whole number or at least 0.2
\* away from one, so the rounding of the division never crosses an integer.
calc_ideal_weight(dx) ==
    LET wx_int == TruncDiv(CenterWeight * TILE_WIDTH + dx * 256, TILE_WIDTH)
        capped == IF 255 < wx_int THEN 255 ELSE wx_int
    IN  IF 0 > capped THEN 0 ELSE capped

\* one call of calc_weight_fixed; the second call stays on the first one's axis
CalcWeight(d, x_axis) ==
    /\ \/ wpc = "start" /\ wpc' = "first"
       \/ wpc = "first" /\ fn = "fixed" /\ x_axis = is_x_axis /\ wpc' = "second"
    /\ fn' = "fixed"
    /\ is_x_axis' = x_axis
    /\ prev_d' = dx_or_dy
    /\ prev_weight' = weight
    /\ prev_offset' = offset
    /\ dx_or_dy' = d
    /\ mult' = WeightMult(d, x_axis)
    /\ offset' = ShiftedOffset(mult')
    /\ weight' = calc_weight_fixed(d, x_axis)
    /\ UNCHANGED <<wx_ideal, error>>
    /\ UNCHANGED <<cdfVars, interpVars, scanVars, harnessVars>>

\* analyze_weight_precision, one dx: calc_current_weight (horizontal axis
\* only), calc_ideal_weight and their distance; the second call follows a
\* first call of the same function
CalcCurrentWeight(d) ==
    /\ \/ wpc = "start" /\ wpc' = "first"
       \/ wpc = "first" /\ fn = "current" /\ wpc' = "second"
    /\ fn' = "current"
    /\ is_x_axis' = TRUE
    /\ prev_d' = dx_or_dy
    /\ prev_weight' = weight
    /\ prev_offset' = offset
    /\ dx_or_dy' = d
    /\ mult' = d * MultX
    /\ offset' = ShiftedOffset(mult')
    /\ weight' = calc_current_weight(d)
    /\ wx_ideal' = calc_ideal_weight(d)
    /\ error' = (IF weight' >= wx_ideal' THEN weight' - wx_ideal' ELSE wx_ideal' - weight')
    /\ UNCHANGED <<cdfVars, interpVars, scanVars, harnessVars>>

NextWeight ==
    /\ wpc # "second"
    /\ \/ \E d \in Offsets, x_axis \in BOOLEAN : CalcWeight(d, x_axis)
       \/ \E d \in Offsets : CalcCurrentWeight(d)

SpecWeight == Init /\ [][NextWeight]_vars

(***************************************************************************)
(* debug_interp_weights.py: calc_weight_verilog and test_bilinear_interp   *)
(***************************************************************************)
\* lines 17-30: ((local_coord * k) >> 10) & 0xFF
calc_weight_verilog(local_coord, x_axis) ==
    ShiftRight(local_coord * (IF x_axis THEN MultX ELSE MultY), Shift) % 256

\* mutant of BlendSum: the weights add up to 255
BlendSumComplement255(w, a, b) == (255 - w) * a + w * b

\* mutant of BlendSum: the first operand keeps its full weight of 256
BlendSumNoComplement(w, a, b) == 256 * a + w * b

\* lines 177, 178, 181: the weighted sum before the shift
BlendSum(w, a, b) == (256 - w) * a + w * b

\* mutant of InterpShift: half a unit is added before the shift
InterpShiftRounded(v) == ShiftRight(v + 128, 8)

\* mutant of InterpShift: one bit too few is shifted out
InterpShift7(v) == ShiftRight(v, 7)

\* lines 177, 178, 181: >> 8
InterpShift(v) == ShiftRight(v, 8)

\* lines 172-181, one iteration of the loop over the test positions
TestPosition(lx, ly, tl, tr, bl, br) ==
    /\ ipc = "start"
    /\ ipc' = "done"
    /\ local_x' = lx
    /\ local_y' = ly
    /\ cdf_tl' = tl
    /\ cdf_tr' = tr
    /\ cdf_bl' = bl
    /\ cdf_br' = br
    /\ wx' = calc_weight_verilog(lx, TRUE)
    /\ wy' = calc_weight_verilog(ly, FALSE)
    /\ sum_top' = BlendSum(wx', tl, tr)
    /\ interp_top' = InterpShift(sum_top')
    /\ sum_bottom' = BlendSum(wx', bl, br)
    /\ interp_bottom' = InterpShift(sum_bottom')
    /\ sum_result' = BlendSum(wy', interp_top', interp_bottom')
    /\ interp_result' = InterpShift(sum_result')
    /\ UNCHANGED <<cdfVars, weightVars, scanVars, harnessVars>>

NextInterp ==
    /\ ipc = "start"
    /\ \E lx \in LocalXs, ly \in LocalYs, tl \in CdfValues, tr \in CdfValues,
          bl \in CdfValues, br \in CdfValues :
            TestPosition(lx, ly, tl, tr, bl, br)

SpecInterp == Init /\ [][NextInterp]_vars

(***************************************************************************)
(* visualize_fixed_weights: the scans over two tiles in x and in y         *)
(***************************************************************************)

\* np.arange(0, 640) and np.arange(0, 360)
ScanWidth == 640
ScanHeight == 360

\* mutant of TileOf: rounds to the nearest tile origin
TileOfRounded(p, dim) == (p + dim \div 2) \div dim

\* px // TILE_WIDTH, py // TILE_HEIGHT (floor division of a non-negative int)
TileOf(p, dim) == p \div dim

\* px % TILE_WIDTH, py % TILE_HEIGHT
LocalOf(p, dim) == p % dim

\* one iteration of "for px in pixel_x"
ScanX ==
    /\ spc = "x"
    /\ Len(wx_values) < ScanWidth
    /\ px' = Len(wx_values)
    /\ tile_x' = TileOf(px', TILE_WIDTH)
    /\ px_local' = LocalOf(px', TILE_WIDTH)
    /\ wx_values' = Append(wx_values, calc_weight_fixed(px_local' - TILE_CENTER_X, TRUE))
    /\ tile_ids' = Append(tile_ids, tile_x')
    /\ UNCHANGED <<spc, py, tile_y, py_local, wy_values>>
    /\ UNCHANGED <<cdfVars, weightVars, interpVars, harnessVars>>

\* pixel_x is exhausted
EndScanX ==
    /\ spc = "x"
    /\ Len(wx_values) = ScanWidth
    /\ spc' = "y"
    /\ UNCHANGED <<px, tile_x, px_local, wx_values, tile_ids, py, tile_y,
                   py_local, wy_values>>
    /\ UNCHANGED <<cdfVars, weightVars, interpVars, harnessVars>>

\* one iteration of "for py in pixel_y"
ScanY ==
    /\ spc = "y"
    /\ Len(wy_values) < ScanHeight
    /\ py' = Len(wy_values)
    /\ tile_y' = TileOf(py', TILE_HEIGHT)
    /\ py_local' = LocalOf(py', TILE_HEIGHT)
    /\ wy_values' = Append(wy_values, calc_weight_fixed(py_local' - TILE_CENTER_Y, FALSE))
    /\ UNCHANGED <<spc, px, tile_x, px_local, wx_values, tile_ids>>
    /\ UNCHANGED <<cdfVars, weightVars, interpVars, harnessVars>>

\* pixel_y is exhausted
EndScanY ==
    /\ spc = "y"
    /\ Len(wy_values) = ScanHeight
    /\ spc' = "done"
    /\ UNCHANGED <<px, tile_x, px_local, wx_values, tile_ids, py, tile_y,
                   py_local, wy_values>>
    /\ UNCHANGED <<cdfVars, weightVars, interpVars, harnessVars>>

NextScan ==
    \/ ScanX
    \/ EndScanX
    \/ ScanY
    \/ EndScanY

SpecScan == Init /\ [][NextScan]_vars

(***************************************************************************)
(* verify_cdf_golden.py: verify_test and the loop and summary of main      *)
(***************************************************************************)
\* (test_id, tile_id) pairs of input_data the loop goes through at most
MaxPairs == 3

\* tables calculate_cdf returns: the all-zero one and the four-step one
StepTable ==
    [i \in BinIdx |-> IF i < 85 THEN 0 ELSE IF i < 170 THEN 85
                      ELSE IF i < 255 THEN 170 ELSE 255]
GoldenTables == {ZeroHist, StepTable}

\* how the recorded output differs from the golden table: by d1 at bin b,
\* by d2 at bin 100, and possibly with no record for bin 255
EditBins == {0, 255}
Deltas == {-2, -1, 0, 1, 2}
SmallDeltas == {0, 1}

ActualOutput(golden, b, d1, d2, missing) ==
    [i \in (IF missing THEN BinIdx \ {Bins - 1} ELSE BinIdx) |->
        golden[i] + (IF i = b THEN d1 ELSE 0) + (IF i = 100 THEN d2 ELSE 0)]

\* line 161: actual_output.get(bin_addr, 0)
Get(actual, bin_addr) == IF bin_addr \in DOMAIN actual THEN actual[bin_addr] ELSE 0

Abs(v) == IF v < 0 THEN -v ELSE v

\* greatest element of a set of naturals, 0 for the empty set
MaxOf(S) == IF S = {} THEN 0 ELSE CHOOSE v \in S : \A u \in S : u <= v

\* lines 150-180: the number of differing bins and the largest distance
verify_test(golden, actual) ==
    LET differing == {i \in BinIdx : golden[i] # Get(actual, i)}
    IN  [count |-> Cardinality(differing),
         worst |-> MaxOf({Abs(golden[i] - Get(actual, i)) : i \in differing})]

\* lines 227-268: one pair present in input and output data is compared,
\* classified and counted
VerifyPair(golden, actual) ==
    /\ hpc = "loop"
    /\ pair_idx < MaxPairs
    /\ pair_idx' = pair_idx + 1
    /\ golden_cdf' = golden
    /\ actual_output' = actual
    /\ LET result == verify_test(golden, actual)
       IN  /\ mismatches' = result.count
           /\ max_error' = result.worst
    /\ total_tests' = total_tests + 1
    /\ IF mismatches' = 0
       THEN /\ status' = "PASS"
            /\ passed_tests' = passed_tests + 1
            /\ UNCHANGED <<acceptable_tests, failed_tests>>
       ELSE IF max_error' <= 1
       THEN /\ status' = "ACCEPTABLE"
            /\ acceptable_tests' = acceptable_tests + 1
            /\ UNCHANGED <<passed_tests, failed_tests>>
       ELSE /\ status' = "FAIL"
            /\ failed_tests' = failed_tests + 1
            /\ UNCHANGED <<passed_tests, acceptable_tests>>
    /\ UNCHANGED <<hpc, exit_status>>
    /\ UNCHANGED <<cdfVars, weightVars, interpVars, scanVars>>

\* lines 223-225 and 228-229: a pair with no output data is passed over
SkipPair ==
    /\ hpc = "loop"
    /\ pair_idx < MaxPairs
    /\ pair_idx' = pair_idx + 1
    /\ UNCHANGED <<hpc, golden_cdf, actual_output, mismatches, max_error,
                   status, total_tests, passed_tests, acceptable_tests,
                   failed_tests, exit_status>>
    /\ UNCHANGED <<cdfVars, weightVars, interpVars, scanVars>>

\* lines 270-287: the summary divides each counter by total_tests (lines
\* 275-277, ZeroDivisionError when it is 0), then main returns 0 or 1
Summarise ==
    /\ hpc = "loop"
    /\ IF total_tests = 0
       THEN /\ hpc' = "raised"
            /\ UNCHANGED exit_status
       ELSE /\ hpc' = "returned"
            /\ exit_status' = (IF failed_tests = 0 THEN 0 ELSE 1)
    /\ UNCHANGED <<pair_idx, golden_cdf, actual_output, mismatches, max_error,
                   status, total_tests, passed_tests, acceptable_tests,
                   failed_tests>>
    /\ UNCHANGED <<cdfVars, weightVars, interpVars, scanVars>>

NextHarness ==
    \/ \E golden \in GoldenTables, b \in EditBins, d1 \in Deltas,
          d2 \in SmallDeltas, missing \in BOOLEAN :
            VerifyPair(golden, ActualOutput(golden, b, d1, d2, missing))
    \/ SkipPair
    \/ Summarise

SpecHarness == Init /\ [][NextHarness]_vars

NextCdf ==
    \/ \E b \in BinAddrs, v \in Counts : ReadRecord(b, v)
    \/ EndRead
    \/ \E c \in ClipLimits, cast \in Casts : CalculateCdf(c, cast)

SpecCdf == Init /\ [][NextCdf]_vars

(***************************************************************************)
(* Properties of calculate_cdf (SpecCdf)                                   *)
(***************************************************************************)
Called == pc = "done" /\ clip_limit > 0

Min2(a, b) == IF a < b THEN a ELSE b

\* sum of all bins of h
HistSum(h) == SumRange(h, 0, Bins - 1)

\* sum over the bins of max(H[i] - c, 0)
ExcessOf(h, c) ==
    SumRange([i \in BinIdx |-> IF h[i] - c > 0 THEN h[i] - c ELSE 0], 0, Bins - 1)

\* h is zero everywhere except bin b
OnlyBin(h, b) == h[b] > 0 /\ \A i \in BinIdx \ {b} : h[i] = 0

\* C1: for clip_limit > 0 the clipped and redistributed histogram has the
\* same sum as the input histogram.
C1_Conservation ==
    Called => HistSum(clipped_hist) = HistSum(histogram)

C1_Witness ==
    /\ Called
    /\ (total_excess \div Bins) > 0
    /\ (total_excess % Bins) > 0

\* C2: every bin of the clipped histogram is min(H[i], clip_limit) plus
\* total_excess div 256, plus 1 exactly for the bins 0..remainder-1.
C2_RemainderPlacement ==
    Called =>
        LET excess == ExcessOf(histogram, clip_limit)
        IN  \A i \in BinIdx :
                clipped_hist[i] = Min2(histogram[i], clip_limit) + (excess \div Bins)
                                    + (IF i < (excess % Bins) THEN 1 ELSE 0)

C2_Witness ==
    /\ Called
    /\ (total_excess % Bins) > 1
    /\ clipped_hist[(total_excess % Bins) - 1] = clipped_hist[total_excess % Bins] + 1

\* C3: for clip_limit > 0 the returned table is non-decreasing, leading
\* empty bins included.
C3_Monotonic ==
    Called => \A i \in 0..(Bins - 2) : normalized_cdf[i] <= normalized_cdf[i + 1]

\* C4: in the normalising branch every entry is
\* floor((cdf[i] - cdf_min) * 255 / (total - cdf_min)) clamped into [0,255],
\* so an entry with a negative numerator is 0.
C4_Normalisation ==
    LET cdf_min == CdfMin(cdf)
        total == cdf[Bins - 1]
    IN  (Called /\ total # cdf_min /\ total # 0) =>
            \A i \in BinIdx :
                LET q == ((cdf[i] - cdf_min) * 255) \div (total - cdf_min)
                IN  normalized_cdf[i] = (IF q < 0 THEN 0 ELSE IF q > 255 THEN 255 ELSE q)

\* C5 as stated: a histogram with a single populated bin, of any count N > 0
\* (N > clip_limit included), gives an all-zero table.
C5_Original ==
    (Called /\ \E b \in BinIdx : OnlyBin(histogram, b)) =>
        normalized_cdf = ZeroHist

\* C5 amended: a histogram with a single populated bin whose count N
\* satisfies 0 < N <= clip_limit gives an all-zero table.
C5_Amended ==
    (Called /\ \E b \in BinIdx : OnlyBin(histogram, b) /\ histogram[b] <= clip_limit) =>
        normalized_cdf = ZeroHist

C5_Witness ==
    /\ Called
    /\ \E b \in BinIdx \ {0} : OnlyBin(histogram, b) /\ histogram[b] <= clip_limit
    /\ normalized_cdf = ZeroHist

\* C6: an all-zero histogram with clip_limit > 0 returns 256 zeros and ends
\* in no error.
C6_EmptyTile ==
    (Called /\ histogram = ZeroHist) =>
        (outcome = "returned" /\ \A i \in BinIdx : normalized_cdf[i] = 0)

C6_Witness ==
    /\ Called
    /\ histogram = ZeroHist
    /\ outcome = "returned"

\* C7 as stated: after clipping and redistribution no bin exceeds clip_limit.
C7_Original ==
    Called => \A i \in BinIdx : clipped_hist[i] <= clip_limit

\* C7 amended: after clipping and redistribution no bin exceeds
\* clip_limit + total_excess div 256, plus 1 when total_excess mod 256 > 0;
\* so no bin exceeds clip_limit when nothing was clipped.
C7_Amended ==
    Called =>
        \A i \in BinIdx :
            clipped_hist[i] <= clip_limit + (total_excess \div Bins)
                                + (IF (total_excess % Bins) > 0 THEN 1 ELSE 0)

C7_Witness ==
    /\ Called
    /\ \E i \in BinIdx : clipped_hist[i] > clip_limit
    /\ \E i \in BinIdx : histogram[i] > clip_limit /\ clipped_hist[i] = clip_limit

\* C8: a call with clip_limit <= 0 ends in an error, never in a returned table.
C8_Rejected ==
    (pc = "done" /\ clip_limit <= 0) => outcome = "error"

\* the two histograms of the end-to-end scenario
SingleValued == [ZeroHist EXCEPT ![50] = 16]
FourValued == [ZeroHist EXCEPT ![0] = 4, ![85] = 4, ![170] = 4, ![255] = 4]

\* C16: with clip_limit = 100 the histogram {50: 16} gives an all-zero
\* table, and 4 pixels in each of bins 0, 85, 170, 255 give the table that
\* is 0 on bins 0..84, 85 on 85..169, 170 on 170..254 and 255 on bin 255.
C16_EndToEnd ==
    (pc = "done" /\ clip_limit = 100) =>
        /\ histogram = SingleValued =>
               (outcome = "returned" /\ \A i \in BinIdx : normalized_cdf[i] = 0)
        /\ histogram = FourValued =>
               /\ outcome = "returned"
               /\ \A i \in BinIdx :
                      normalized_cdf[i] = (IF i < 85 THEN 0
                                           ELSE IF i < 170 THEN 85
                                           ELSE IF i < 255 THEN 170 ELSE 255)
               /\ \A i \in 0..(Bins - 2) : normalized_cdf[i] <= normalized_cdf[i + 1]

C16_Witness ==
    /\ pc = "done"
    /\ clip_limit = 100
    /\ histogram = FourValued
    /\ normalized_cdf[85] = 85
    /\ normalized_cdf[254] = 170

\* C17: no table is computed while records are still being read, and no
\* record changes the histogram once reading has ended, so every table is
\* derived from the complete histogram.
C17_Barrier ==
    [][/\ pc = "read" => (normalized_cdf' = normalized_cdf /\ outcome' = "none")
       /\ pc # "read" => histogram' = histogram]_vars

C17_Witness ==
    /\ pc = "done"
    /\ outcome = "returned"
    /\ histogram[0] > 0 /\ histogram[85] > 0 /\ histogram[255] > 0
    /\ normalized_cdf[255] = 255

\* C18: a call of calculate_cdf leaves its input histogram and the fields
\* bins and tile_pixels of the model object as they were, so later tiles
\* are computed from untouched inputs whatever was processed before.
C18_Pure ==
    [][(pc = "loaded" /\ pc' = "done") =>
          (histogram' = histogram /\ bins' = bins /\ tile_pixels' = tile_pixels)]_vars

C18_Witness ==
    /\ pc = "done"
    /\ clip_limit > 0
    /\ total_excess > 0
    /\ \E i \in BinIdx : histogram[i] > clip_limit /\ clipped_hist[i] < histogram[i]
    /\ bins = Bins /\ tile_pixels = TilePixels

\* C23: after the clipping loop and before the excess is added back every
\* bin holds min(H[i], clip_limit), so none exceeds clip_limit, and
\* total_excess is sum(H) minus the sum of the clipped bins.
C23_PreRedistribution ==
    pc = "done" =>
        /\ \A i \in BinIdx :
               /\ pre_hist[i] = Min2(histogram[i], clip_limit)
               /\ pre_hist[i] <= clip_limit
        /\ total_excess = HistSum(histogram) - HistSum(pre_hist)

C23_Witness ==
    /\ Called
    /\ total_excess > 0
    /\ \E i \in BinIdx : histogram[i] > clip_limit /\ pre_hist[i] = clip_limit
    /\ \E j \in BinIdx : 0 < histogram[j] /\ histogram[j] < clip_limit
                           /\ pre_hist[j] = histogram[j]

\* C30: for clip_limit > 0 every bin of the final clipped histogram lies
\* between min(H[i], clip_limit) and clip_limit + total_excess div 256 + 1,
\* and a bin exceeds clip_limit only when total_excess > 0.
C30_RedistributedBounds ==
    Called =>
        /\ \A i \in BinIdx :
               /\ Min2(histogram[i], clip_limit) <= clipped_hist[i]
               /\ clipped_hist[i] <= clip_limit + (total_excess \div Bins) + 1
        /\ (\E i \in BinIdx : clipped_hist[i] > clip_limit) => total_excess > 0

C30_Witness ==
    /\ Called
    /\ total_excess > 0
    /\ \E i \in BinIdx : clipped_hist[i] = clip_limit + (total_excess \div Bins) + 1
    /\ \E j \in BinIdx : /\ histogram[j] < clip_limit
                           /\ clipped_hist[j] = histogram[j] + (total_excess \div Bins)

\* C28: when the call takes the normalising branch (total # cdf_min and
\* total # 0) the returned table is 255 at bin 255 and 0 at the lowest bin
\* whose cumulative sum is positive.
C28_EndPoints ==
    LET positive == {i \in BinIdx : cdf[i] > 0}
        total == cdf[Bins - 1]
    IN  (pc = "done" /\ total # 0 /\ positive # {}) =>
            LET first == CHOOSE i \in positive : \A j \in positive : i <= j
            IN  total # cdf[first] =>
                    /\ outcome = "returned"
                    /\ normalized_cdf[Bins - 1] = 255
                    /\ normalized_cdf[first] = 0

C28_Witness ==
    /\ Called
    /\ outcome = "returned"
    /\ normalized_cdf[Bins - 1] = 255
    /\ \E i \in BinIdx \ {0} : cdf[i] > 0 /\ cdf[i - 1] = 0 /\ normalized_cdf[i] = 0
    /\ \E k \in BinIdx : 0 < normalized_cdf[k] /\ normalized_cdf[k] < 255

(***************************************************************************)
(* Properties of calc_weight_fixed (SpecWeight)                            *)
(***************************************************************************)
\* C9: the weight of offset 0 is exactly 128, on both axes.
C9_CentreWeight ==
    (wpc # "start" /\ dx_or_dy = 0) => weight = 128

C9_Witness ==
    /\ wpc = "second"
    /\ ~is_x_axis
    /\ dx_or_dy = 0
    /\ weight = 128

\* C10: on either axis d1 <= d2 implies weight(d1) <= weight(d2), and every
\* weight lies in [0,255].
C10_Monotone ==
    /\ wpc # "start" => (weight >= 0 /\ weight <= 255)
    /\ (wpc = "second" /\ prev_d <= dx_or_dy) => prev_weight <= weight

C10_Witness ==
    /\ wpc = "second"
    /\ prev_d < -160 /\ prev_weight = 0
    /\ dx_or_dy > 160 /\ weight = 255

\* half of the tile dimension on the axis of the latest call
HalfTile == IF is_x_axis THEN TILE_CENTER_X ELSE TILE_CENTER_Y

\* tile dimension on the axis of the latest call
TileDim == IF is_x_axis THEN TILE_WIDTH ELSE TILE_HEIGHT

C12_BoundaryContinuity ==
    wpc # "start" =>
        /\ dx_or_dy = (TileDim - 1) - HalfTile => (weight >= 254 /\ weight <= 255)
        /\ dx_or_dy = 0 - HalfTile => (weight >= 0 /\ weight <= 1)

C12_Witness ==
    /\ wpc = "second"
    /\ ~is_x_axis
    /\ prev_d = (TileDim - 1) - HalfTile /\ prev_weight = 254
    /\ dx_or_dy = 0 - HalfTile /\ weight = 1

\* C13: the shifted offset is odd in d, offset(-d) = -offset(d), and when
\* neither 128 + offset leaves [0,255] the two weights add up to 256.
C13_RoundTowardZero ==
    (wpc = "second" /\ dx_or_dy = -prev_d) =>
        /\ offset = -prev_offset
        /\ (/\ CenterWeight + offset >= 0 /\ CenterWeight + offset <= 255
            /\ CenterWeight + prev_offset >= 0 /\ CenterWeight + prev_offset <= 255)
           => weight + prev_weight = 256

C13_Witness ==
    /\ wpc = "second"
    /\ dx_or_dy = -prev_d
    /\ dx_or_dy < 0
    /\ mult % 1024 # 0
    /\ offset = -prev_offset
    /\ weight + prev_weight = 256

\* C20: the multiplier of each axis is floor(256 * 1024 / tile dimension),
\* 819 horizontally and 1456 vertically, and the product is shifted by 10.
C20_DerivedMultipliers ==
    wpc # "start" =>
        LET k == (256 * 1024) \div TileDim
        IN  /\ k = (IF is_x_axis THEN 819 ELSE 1456)
            /\ mult = dx_or_dy * k
            /\ offset = (IF mult < 0 THEN -((-mult) \div 1024) ELSE mult \div 1024)

C20_Witness ==
    /\ wpc = "second"
    /\ ~is_x_axis
    /\ fn = "fixed"
    /\ dx_or_dy = 1 /\ mult = 1456
    /\ prev_d = -1 /\ prev_offset = -1

\* C22: for every dx in [-160, 159] the fixed-point weight
\* calc_current_weight(dx) and the ideal weight calc_ideal_weight(dx)
\* differ by at most 1.
C22_WeightAccuracy ==
    (wpc # "start" /\ fn = "current"
        /\ dx_or_dy >= -TILE_CENTER_X /\ dx_or_dy <= TILE_CENTER_X - 1) =>
            /\ error <= 1
            /\ weight - wx_ideal <= 1
            /\ wx_ideal - weight <= 1

C22_Witness ==
    /\ wpc = "second"
    /\ fn = "current"
    /\ prev_d = -TILE_CENTER_X /\ prev_weight = 1
    /\ dx_or_dy = 5 /\ weight = 131 /\ wx_ideal = 132 /\ error = 1

\* C25: calc_current_weight(dx) and calc_weight_fixed(dx, True) return the
\* same value for every dx.
C25_CopiesAgree ==
    wpc # "start" =>
        /\ fn = "current" => weight = calc_weight_fixed(dx_or_dy, TRUE)
        /\ (fn = "fixed" /\ is_x_axis) => weight = calc_current_weight(dx_or_dy)

C25_Witness ==
    /\ wpc = "second"
    /\ fn = "current"
    /\ prev_d = -1 /\ prev_weight = 128
    /\ dx_or_dy < -TILE_CENTER_X /\ weight = 0

(***************************************************************************)
(* Properties of the bilinear blend (SpecInterp)                           *)
(***************************************************************************)
\* C14: with weights and looked-up values in [0,255], top, bottom and
\* result of the two nested truncating blends lie in [0,255].
C14_OutputRange ==
    ipc = "done" =>
        /\ interp_top >= 0 /\ interp_top <= 255
        /\ interp_bottom >= 0 /\ interp_bottom <= 255
        /\ interp_result >= 0 /\ interp_result <= 255

C14_Witness ==
    /\ ipc = "done"
    /\ wx > 0 /\ wx < 255 /\ wy > 0 /\ wy < 255
    /\ cdf_tl = 255 /\ cdf_tr = 255 /\ cdf_bl = 255 /\ cdf_br = 255
    /\ interp_result = 255

\* C15: each sum (256 - w) * a + w * b formed before a >> 8 is
\* non-negative and at most 65535.
C15_NoOverflow ==
    ipc = "done" =>
        /\ sum_top >= 0 /\ sum_top <= 65535
        /\ sum_bottom >= 0 /\ sum_bottom <= 65535
        /\ sum_result >= 0 /\ sum_result <= 65535

C15_Witness ==
    /\ ipc = "done"
    /\ wx = 255 /\ wy = 254
    /\ sum_top = 255 * 256
    /\ sum_result = 255 * 256

Max2(a, b) == IF a > b THEN a ELSE b

\* C26: the result lies between the least and the greatest of the four
\* looked-up values; when the four are equal the result is that value.
C26_WithinInputs ==
    ipc = "done" =>
        /\ Min2(Min2(cdf_tl, cdf_tr), Min2(cdf_bl, cdf_br)) <= interp_result
        /\ interp_result <= Max2(Max2(cdf_tl, cdf_tr), Max2(cdf_bl, cdf_br))
        /\ (cdf_tl = cdf_tr /\ cdf_tr = cdf_bl /\ cdf_bl = cdf_br) => interp_result = cdf_tl

C26_Witness ==
    /\ ipc = "done"
    /\ wx > 0 /\ wx < 255 /\ wy > 0 /\ wy < 255
    /\ cdf_tl = 150 /\ cdf_tr = 150 /\ cdf_bl = 150 /\ cdf_br = 150
    /\ interp_result = 150

\* what the blend of a and b returns at the largest weight
FarEnd(a, b) == IF a >= b THEN b ELSE b - 1

\* C27: the blend ((256 - w) * a + w * b) >> 8 returns a when w = 0, and
\* when w = 255 returns b if a >= b and b - 1 if a < b.
C27_EndPoints ==
    ipc = "done" =>
        /\ wx = 0 => (interp_top = cdf_tl /\ interp_bottom = cdf_bl)
        /\ wy = 0 => interp_result = interp_top
        /\ wx = 255 => /\ interp_top = FarEnd(cdf_tl, cdf_tr)
                       /\ interp_bottom = FarEnd(cdf_bl, cdf_br)

C27_Witness ==
    /\ ipc = "done"
    /\ wx = 255 /\ wy = 0
    /\ cdf_tl = 100 /\ cdf_tr = 150 /\ interp_top = 149
    /\ cdf_bl = 255 /\ cdf_br = 1 /\ interp_bottom = 1
    /\ interp_result = 149


(***************************************************************************)
(* Properties of the pixel scans (SpecScan)                                *)
(***************************************************************************)

TilesX == ScanWidth \div TILE_WIDTH
TilesY == ScanHeight \div TILE_HEIGHT

\* <<t, l>> is a home of pixel p: a tile of the scan and an offset inside it
IsHome(p, t, l, dim, tiles) ==
    /\ 0 <= l /\ l < dim
    /\ 0 <= t /\ t < tiles
    /\ t * dim + l = p

\* C19: the tile and the local coordinate computed for every scanned pixel
\* are in range and recompose the pixel, and no other tile and offset do,
\* horizontally with 320 and vertically with 180.
C19_PixelToTile ==
    /\ Len(wx_values) > 0 =>
           /\ IsHome(px, tile_x, px_local, TILE_WIDTH, TilesX)
           /\ \A t \in 0..(TilesX - 1), l \in 0..(TILE_WIDTH - 1) :
                  IsHome(px, t, l, TILE_WIDTH, TilesX) => (t = tile_x /\ l = px_local)
           /\ tile_ids[px + 1] = tile_x
    /\ Len(wy_values) > 0 =>
           /\ IsHome(py, tile_y, py_local, TILE_HEIGHT, TilesY)
           /\ \A t \in 0..(TilesY - 1), l \in 0..(TILE_HEIGHT - 1) :
                  IsHome(py, t, l, TILE_HEIGHT, TilesY) => (t = tile_y /\ l = py_local)

C19_Witness ==
    /\ spc = "done"
    /\ px = ScanWidth - 1 /\ tile_x = 1 /\ px_local = TILE_WIDTH - 1
    /\ py = ScanHeight - 1 /\ tile_y = 1 /\ py_local = TILE_HEIGHT - 1
    /\ tile_ids[TILE_WIDTH] = 0 /\ tile_ids[TILE_WIDTH + 1] = 1

HarnessVerdicts ==
    LET differing == {i \in BinIdx : golden_cdf[i] # Get(actual_output, i)}
        worst == MaxOf({Abs(golden_cdf[i] - Get(actual_output, i)) : i \in differing})
    IN  /\ passed_tests + acceptable_tests + failed_tests = total_tests
        /\ status # "none" =>
               /\ status = "PASS" <=> differing = {}
               /\ status = "ACCEPTABLE" <=> (differing # {} /\ worst <= 1)
               /\ status = "FAIL" <=> (differing # {} /\ worst > 1)

\* main has ended, by a return or by an exception
Ended == hpc # "loop"

\* C21: a pair is PASS exactly when no bin mismatches, ACCEPTABLE exactly
\* when a bin mismatches and the largest error is at most 1, FAIL otherwise;
\* the counters add up to total_tests; and main returns 0 exactly when the
\* FAIL counter is 0 and returns 1 otherwise.
C21_Verdict ==
    /\ HarnessVerdicts
    /\ Ended =>
           /\ failed_tests = 0 => exit_status = 0
           /\ failed_tests # 0 => exit_status = 1

\* C29: main always ends by returning 0 or 1, never in an error, also when
\* no pair is compared and total_tests stays 0.
C29_AlwaysExits ==
    Ended => (hpc = "returned" /\ exit_status \in {0, 1})

====
